---- MODULE Spec2Model ----
(***************************************************************************)
(* Model of brownie/cli/coverage.py: the `brownie coverage` command.       *)
(*                                                                         *)
(* main() loops over the test files; for every file that is run it replays *)
(* the traces of the file's transactions onto the contract's coverage map  *)
(* (lines 89-125), evaluates every function of the map (lines 127-163) and *)
(* writes a per-file report (lines 165-187).                               *)
(*                                                                         *)
(* Specifications:                                                         *)
(*   Spec      the trace recorder followed by the evaluator, the trace of  *)
(*             the current transaction revealed one instruction ahead      *)
(*   SpecOrder the recorder over a fixed set of traces, replayed in every  *)
(*             order                                                       *)
(*   SpecEval  the evaluator applied to every annotated function           *)
(*   SpecPct   the tail of the evaluator (lines 158-163) applied to every  *)
(*             score and total                                             *)
(*   SpecFiles the loop over the test files (lines 70-87, 165-187)         *)
(***************************************************************************)
EXTENDS Integers, Sequences, FiniteSets, TLC

\* Number of transactions in the history of one test file.
MaxRuns == 2
\* Number of instructions in one trace.
MaxLen == 3
\* Number of lines of the function handed to the evaluator in SpecEval.
MaxLines == 2
\* Number of runs that annotated the function handed to the evaluator.
MaxEvalRuns == 1
\* Largest total weight of the function handed to the evaluator in SpecPct.
MaxTotal == 201
\* Number of test files.
MaxFiles == 2

VARIABLES
    coverage_map,   \* line 87: contract name -> source -> functions, annotated
    coverage_eval,  \* line 88: the report of the evaluator
    tx,             \* line 89: the transaction being replayed (run identifier)
    ntx,            \* number of transactions of the history taken so far
    win,            \* Spec: <<tx.trace[i]>> or <<tx.trace[i], tx.trace[i+1]>>
    n,              \* Spec: number of instructions of tx.trace before win
    trace,          \* SpecOrder: tx.trace
    i,              \* SpecOrder: line 92, index into trace (1-based)
    hist,           \* SpecOrder: run identifier -> trace
    pending,        \* SpecOrder: runs of the history not replayed yet
    phase,          \* position of main(): "tx", "instr", "done", "raised"
    err,            \* the exception that ended main(), or "none"
    tally,          \* SpecPct: lines 143, 158: [count, total] of one function
    args,           \* line 42 and config.ARGV: [update, range]
    test_files,     \* line 44: the test files, 1..k
    tests,          \* test file -> content of its source
    bytecode,       \* the compiled bytecode of the contract: [code, metadata]
    reports,        \* test file -> build/coverage/<file>.json, if it exists
    cached,         \* reports when main() started
    run,            \* test file -> "pending", "skipped", "tb" or "ok"
    recorded,       \* test files whose history was replayed (line 87 reached)
    fphase          \* position of main(): "args", "loop", "exit", "raised",
                    \* "done"

recVars == <<coverage_map, coverage_eval, tx, ntx, win, n, trace, i, hist,
             pending, phase, err, tally>>

fileVars == <<args, test_files, tests, bytecode, reports, cached, run,
              recorded, fphase>>

vars == <<recVars, fileVars>>

(***************************************************************************)
(* The coverage map of a contract, as get_build(name)['coverageMap']       *)
(* supplies it: source file -> functions (in the order of the dict), every *)
(* function with the set of its program counters, its ordered lines and    *)
(* its total weight.  The annotations the recorder adds are included with  *)
(* their initial values: keys says whether setdefault has created 'tx',    *)
(* 'true' and 'false' on the line.                                         *)
(*                                                                         *)
(* i['jump'] holds False on a line without branch, the program counter of  *)
(* the JUMPI on a line with one, and, once line 137 has run, the list      *)
(* [len(true), len(false)].  The three are written as sequences: <<>>,     *)
(* <<pc>> and <<t, f>>; the program counters of the model start at 1, so   *)
(* no program counter equals False.                                        *)
(***************************************************************************)
\* {} of lines 87-88 and 101
Empty == [c \in {} |-> 0]

\* i['jump'] of a line without branch
NoJump == <<>>
\* i['jump'] of a line whose JUMPI is at pc
JumpAt(pc) == <<pc>>

Line(pcs, jump) ==
    [pc |-> pcs, jump |-> jump, keys |-> FALSE, tx |-> {}, true |-> {},
     false |-> {}]

Weight(ln) == IF ln.jump # NoJump THEN 2 ELSE 1

\* the weights of lines 1..k
RECURSIVE SumWeights(_, _)
SumWeights(lines, k) ==
    IF k = 0 THEN 0 ELSE Weight(lines[k]) + SumWeights(lines, k - 1)

TotalWeight(lines) == SumWeights(lines, Len(lines))

Function(name, pcs, lines) ==
    [name |-> name, fn |-> [pc |-> pcs, tx |-> {}], line |-> lines,
     total |-> TotalWeight(lines)]

\* Contract "C", source "a.sol":
\*   f  pc 1..4: line 0 = {1}; line 1 = {2} with its JUMPI at 3; 4 follows
\*      the JUMPI and belongs to no line
\*   g  pc 5..6: line 0 = {5}; 6 is a JUMPI that belongs to no line
\*   pc 7 belongs to no function
GetBuild(name) ==
    [s \in {"a.sol"} |->
        << Function("f", 1..4, << Line({1}, NoJump), Line({2}, JumpAt(3)) >>),
           Function("g", 5..6, << Line({5}, NoJump) >>) >>]

PCs == 1..7
JumpiPCs == {3, 6}
OpAt(pc) == IF pc \in JumpiPCs THEN "JUMPI" ELSE "OTHER"

Instr(pc, name, source) ==
    [pc |-> pc, op |-> OpAt(pc), contractName |-> name, source |-> source]

\* Instructions of a trace: every program counter of the contract attributed to
\* its source, and instructions without contract name, without source file, or
\* from a source file the coverage map has no entry for.
Instrs ==
    {Instr(pc, "C", "a.sol") : pc \in PCs}
        \cup {Instr(2, "", "a.sol"), Instr(2, "C", ""), Instr(2, "C", "b.sol")}

(***************************************************************************)
(* Lines 99-125: one instruction of a trace.                               *)
(***************************************************************************)
\* lines 99-101: a contract met for the first time gets its coverage map
\* and, in coverage_eval, an empty dict for every source file of the map
Load(cm, ce, name) ==
    IF name \in DOMAIN cm THEN [cm |-> cm, ce |-> ce]
    ELSE [cm |-> [c \in DOMAIN cm \cup {name} |->
                    IF c = name THEN GetBuild(name) ELSE cm[c]],
          ce |-> [c \in DOMAIN ce \cup {name} |->
                    IF c = name
                    THEN [s \in DOMAIN GetBuild(name) |-> Empty]
                    ELSE ce[c]]]

\* next(... for ... if cond): the first match, 0 for StopIteration
FirstOf(S) == IF S = {} THEN 0 ELSE CHOOSE k \in S : \A m \in S : k <= m

\* line 105
FindFn(fns, pc) == FirstOf({k \in 1..Len(fns) : pc \in fns[k].fn.pc})
\* line 109
FindLine(lines, pc) == FirstOf({k \in 1..Len(lines) : pc \in lines[k].pc})
\* line 115
FindJump(lines, pc) ==
    FirstOf({k \in 1..Len(lines) : JumpAt(pc) = lines[k].jump})

\* lines 110-111, 116-117
SetDefault(ln) == [ln EXCEPT !.keys = TRUE]

\* line 118 without its test: every JUMPI of the line counts
JumpSeenAlways(ln, t_x) == TRUE

\* line 118 testing whether any transaction hit the line
JumpSeenByAnyRun(ln, t_x) == ln.tx # {}

\* line 118: the JUMPI counts only if this transaction already hit the line
JumpSeen(ln, t_x) == t_x \in ln.tx

\* line 121
Outcome(tr, k, pc) == IF tr[k + 1].pc = pc + 1 THEN "false" ELSE "true"

\* line 122
AddOutcome(ln, key, t_x) ==
    IF key = "false" THEN [ln EXCEPT !.false = @ \cup {t_x}]
    ELSE [ln EXCEPT !.true = @ \cup {t_x}]

\* lines 107-122, inside the function found at line 105
RecordLine(maps, t_x, tr, k) ==
    LET pc == tr[k].pc
        fn1 == [maps EXCEPT !.fn.tx = @ \cup {t_x}]
    IN  IF tr[k].op # "JUMPI"
        THEN LET j == FindLine(fn1.line, pc)
             IN  IF j = 0 THEN [maps |-> fn1, err |-> "none"]
                 ELSE [maps |-> [fn1 EXCEPT !.line[j] =
                                   [SetDefault(@) EXCEPT !.tx = @ \cup {t_x}]],
                       err |-> "none"]
        ELSE LET j == FindJump(fn1.line, pc)
             IN  IF j = 0 THEN [maps |-> fn1, err |-> "none"]
                 ELSE LET fn2 == [fn1 EXCEPT !.line[j] = SetDefault(@)]
                      IN  IF ~JumpSeen(fn2.line[j], t_x)
                          THEN [maps |-> fn2, err |-> "none"]
                          ELSE IF k + 1 > Len(tr)
                          THEN [maps |-> fn2, err |-> "IndexError"]
                          ELSE [maps |-> [fn2 EXCEPT !.line[j] =
                                   AddOutcome(@, Outcome(tr, k, pc), t_x)],
                                err |-> "none"]

\* lines 93-125: the body of the loop over the trace
RecordInstr(cm, ce, t_x, tr, k) ==
    LET t == tr[k]
        name == t.contractName
        source == t.source
    IN  IF name = "" \/ source = ""
        THEN [cm |-> cm, ce |-> ce, err |-> "none"]
        ELSE LET ld == Load(cm, ce, name)
                 cm1 == ld.cm
             IN  IF source \notin DOMAIN cm1[name]
                 THEN [cm |-> cm1, ce |-> ld.ce, err |-> "KeyError"]
                 ELSE LET f == FindFn(cm1[name][source], t.pc)
                      IN  IF f = 0
                          THEN [cm |-> cm1, ce |-> ld.ce, err |-> "none"]
                          ELSE LET r == RecordLine(cm1[name][source][f],
                                                   t_x, tr, k)
                               IN  [cm |-> [cm1 EXCEPT
                                              ![name][source][f] = r.maps],
                                    ce |-> ld.ce,
                                    err |-> r.err]

(***************************************************************************)
(* Lines 127-163: the evaluator.                                           *)
(***************************************************************************)
\* lines 133-138: ln['count'] is written, and ln['jump'] is replaced by the
\* list [len(true), len(false)] when the line has its keys and a branch.  A
\* line the recorder never reached keeps its jump and gets count 0.
CountLine(ln) ==
    [pc |-> ln.pc,
     jump |-> IF ln.keys /\ ln.jump # NoJump
              THEN <<Cardinality(ln.true), Cardinality(ln.false)>>
              ELSE ln.jump,
     keys |-> ln.keys, tx |-> ln.tx, true |-> ln.true, false |-> ln.false,
     count |-> IF ln.keys THEN Cardinality(ln.tx) ELSE 0]

\* lines 132-138
CountLines(lines) == [c \in 1..Len(lines) |-> CountLine(lines[c])]

\* `not i['jump']`: False is falsy, a list of two counts is truthy
JumpFalsy(ln) == ln.jump = NoJump

\* line 148 looking at the count of the true outcome only
NoFalseInFirst(ln) == ln.jump[1] # 0

\* `False not in i['jump']`: False equals 0, so this says no count is 0
NoFalseIn(ln) == \A k \in 1..Len(ln.jump) : ln.jump[k] # 0

\* lines 146-157 with line 150 adding 1 for every fully covered line
ScoreLineOneUnit(acc, cl, c) ==
    IF cl.count = 0 THEN acc
    ELSE IF JumpFalsy(cl) \/ NoFalseIn(cl)
    THEN [acc EXCEPT !.line = @ \cup {c - 1}, !.count = @ + 1]
    ELSE LET a1 == IF cl.jump[1] # 0
                   THEN [acc EXCEPT !.true = @ \cup {c - 1}, !.count = @ + 1]
                   ELSE acc
         IN  IF cl.jump[2] # 0
             THEN [a1 EXCEPT !.false = @ \cup {c - 1}, !.count = @ + 1]
             ELSE a1

\* lines 146-157: the body of the loop over the lines; c is the 1-based
\* position, enumerate() counts from 0
ScoreLine(acc, cl, c) ==
    IF cl.count = 0 THEN acc
    ELSE IF JumpFalsy(cl) \/ NoFalseIn(cl)
    THEN [acc EXCEPT !.line = @ \cup {c - 1},
                     !.count = @ + (IF JumpFalsy(cl) THEN 1 ELSE 2)]
    ELSE LET a1 == IF cl.jump[1] # 0
                   THEN [acc EXCEPT !.true = @ \cup {c - 1}, !.count = @ + 1]
                   ELSE acc
         IN  IF cl.jump[2] # 0
             THEN [a1 EXCEPT !.false = @ \cup {c - 1}, !.count = @ + 1]
             ELSE a1

\* lines 143-157: count and coverage after the lines 1..c
RECURSIVE Accumulate(_, _)
Accumulate(cls, c) ==
    IF c = 0 THEN [count |-> 0, line |-> {}, true |-> {}, false |-> {}]
    ELSE ScoreLine(Accumulate(cls, c - 1), cls[c], c)

\* round(count/total, 2) in hundredths.  Python rounds the double nearest to
\* count/total correctly; the quotient lies half-way between two hundredths
\* exactly when count/total = k/200 for an odd k, and then the double decides:
\* it is exact for k/200 = m/8 (round half to even) and otherwise lies on one
\* side of the quotient.  TieUp lists the odd k that round(k/200, 2) rounds up.
TieUp ==
    {1, 5, 7, 11, 13, 17, 19, 23, 27, 33, 39, 45, 51, 53, 55, 63, 65, 67, 75,
     77, 79, 81, 89, 91, 93, 101, 103, 105, 107, 109, 111, 127, 129, 131,
     133, 135, 137, 151, 153, 155, 157, 159, 161, 175, 177, 179, 181, 183,
     185, 187}

Round2(count, total) ==
    LET q == (100 * count) \div total
        r == (100 * count) % total
    IN  IF 2 * r < total THEN q
        ELSE IF 2 * r > total THEN q + 1
        ELSE IF ((200 * count) \div total) \in TieUp THEN q + 1 ELSE q

\* lines 158-163; pct is kept in hundredths
FnReport(acc, total) ==
    IF acc.count = total THEN [pct |-> 100]
    ELSE [line |-> acc.line, true |-> acc.true, false |-> acc.false,
          pct |-> Round2(acc.count, total)]

\* lines 129-138: what the evaluation of a function leaves in coverage_map
CountFn(maps) ==
    IF maps.fn.tx = {} THEN maps
    ELSE [maps EXCEPT !.line = CountLines(@)]

\* lines 127-138: coverage_map after the evaluation
CountAll(cm) ==
    [c \in DOMAIN cm |->
        [s \in DOMAIN cm[c] |->
            [k \in 1..Len(cm[c][s]) |-> CountFn(cm[c][s][k])]]]

\* lines 128-163: the report of one function of the map
EvalFn(maps) ==
    IF maps.fn.tx = {} THEN [pct |-> 0]
    ELSE LET cls == CountLines(maps.line)
         IN  IF \A c \in 1..Len(cls) : cls[c].count = 0 THEN [pct |-> 0]
             ELSE FnReport(Accumulate(cls, Len(cls)), maps.total)

FnNamed(fns, name) == fns[CHOOSE k \in 1..Len(fns) : fns[k].name = name]

\* lines 127-163: coverage_eval[contract][source][fn_name] is set for every
\* function of the map; line 101 has made coverage_eval[contract][source]
FnNames(fns) == {fns[k].name : k \in 1..Len(fns)}

EvalAll(cm, ce) ==
    [c \in DOMAIN cm |->
        [s \in DOMAIN cm[c] |->
            [f \in DOMAIN ce[c][s] \cup FnNames(cm[c][s]) |->
                IF f \in FnNames(cm[c][s])
                THEN EvalFn(FnNamed(cm[c][s], f))
                ELSE ce[c][s][f]]]]

(***************************************************************************)
(* Spec: the history of one test file replayed and evaluated.  The trace   *)
(* of a transaction is any sequence of at most MaxLen instructions; the    *)
(* recorder reads tx.trace[i] and tx.trace[i+1] only, so the state holds   *)
(* this window and the next instruction is chosen when the window moves.   *)
(***************************************************************************)
\* the loop over the test files is not part of this specification
FilesIdle ==
    /\ args = [update |-> FALSE, range |-> ""]
    /\ test_files = {}
    /\ tests = Empty
    /\ bytecode = [code |-> 1, metadata |-> 1]
    /\ reports = Empty
    /\ cached = Empty
    /\ run = Empty
    /\ recorded = {}
    /\ fphase = "loop"

\* line 87-88, before the first transaction of the history
RecIdle ==
    /\ coverage_map = Empty
    /\ coverage_eval = Empty
    /\ tx = 0
    /\ ntx = 0
    /\ win = <<>>
    /\ n = 0
    /\ trace = <<>>
    /\ i = 0
    /\ hist = <<>>
    /\ pending = {}
    /\ phase = "tx"
    /\ err = "none"
    /\ tally = [count |-> 0, total |-> 0]

Init == RecIdle /\ FilesIdle

\* windows on a trace that has m instructions before the window
Windows(m) ==
    {<<a>> : a \in Instrs}
        \cup (IF m + 2 <= MaxLen
              THEN {<<a, b>> : a \in Instrs, b \in Instrs} ELSE {})

\* lines 89-91: a transaction without receiver, or with an empty trace
SkipTx ==
    /\ phase = "tx"
    /\ ntx < MaxRuns
    /\ ntx' = ntx + 1
    /\ tx' = ntx + 1
    /\ UNCHANGED <<coverage_map, coverage_eval, win, n, trace, i, hist,
                   pending, phase, err, tally>>
    /\ UNCHANGED fileVars

\* lines 89-92: the next transaction of the history, with a trace
StartTx ==
    /\ phase = "tx"
    /\ ntx < MaxRuns
    /\ ntx' = ntx + 1
    /\ tx' = ntx + 1
    /\ win' \in Windows(0)
    /\ n' = 0
    /\ phase' = "instr"
    /\ UNCHANGED <<coverage_map, coverage_eval, trace, i, hist, pending, err,
                   tally>>
    /\ UNCHANGED fileVars

\* lines 93-125: one instruction, and the move to the next one
RecordStep ==
    /\ phase = "instr"
    /\ LET r == RecordInstr(coverage_map, coverage_eval, tx, win, 1)
       IN  /\ coverage_map' = r.cm
           /\ coverage_eval' = r.ce
           /\ err' = r.err
           /\ IF r.err # "none"
              THEN phase' = "raised" /\ UNCHANGED <<win, n>>
              ELSE IF Len(win) = 1
              THEN phase' = "tx" /\ win' = <<>> /\ n' = 0
              ELSE /\ phase' = "instr"
                   /\ n' = n + 1
                   /\ win' \in {w \in Windows(n + 1) : w[1] = win[2]}
    /\ UNCHANGED <<tx, ntx, trace, i, hist, pending, tally>>
    /\ UNCHANGED fileVars

\* lines 127-163: the history is exhausted
Evaluate ==
    /\ phase = "tx"
    /\ pending = {}
    /\ coverage_map' = CountAll(coverage_map)
    /\ coverage_eval' = EvalAll(coverage_map, coverage_eval)
    /\ phase' = "done"
    /\ UNCHANGED <<tx, ntx, win, n, trace, i, hist, pending, err, tally>>
    /\ UNCHANGED fileVars

Next == SkipTx \/ StartTx \/ RecordStep \/ Evaluate

Spec == Init /\ [][Next]_vars

(***************************************************************************)
(* Properties of the recorder.                                             *)
(***************************************************************************)
\* the lines of the coverage map: <<contract, source, function, line>>
LineIds ==
    {id \in {"C"} \X {"a.sol"} \X (1..2) \X (1..2) :
        /\ id[3] <= Len(GetBuild(id[1])[id[2]])
        /\ id[4] <= Len(GetBuild(id[1])[id[2]][id[3]].line)}

\* the record of a line; a contract not loaded yet has no annotation
LineRec(cm, id) ==
    Load(cm, Empty, id[1]).cm[id[1]][id[2]][id[3]].line[id[4]]

SameSets(l1, l2) ==
    l1.tx = l2.tx /\ l1.true = l2.true /\ l1.false = l2.false

\* the instruction at line 93
Now == win[1]

\* C1: in every state of the recording, every run recorded in true_runs or
\* false_runs of a branching line is recorded in hit_runs of that line.
C1_OutcomesWithinHits ==
    \A id \in LineIds :
        LET ln == LineRec(coverage_map, id)
        IN  ln.jump # NoJump => (ln.true \cup ln.false) \subseteq ln.tx

\* a branching line with both outcomes recorded while a trace is replayed
C1_Witness ==
    /\ phase = "instr"
    /\ \E id \in LineIds :
        LET ln == LineRec(coverage_map, id)
        IN  ln.jump # NoJump /\ ln.true # {} /\ ln.false # {}

\* the lines whose jump_pc is the program counter of instruction t
JumpLines(t) ==
    {id \in LineIds :
        /\ id[1] = t.contractName
        /\ id[2] = t.source
        /\ LineRec(coverage_map, id).jump = JumpAt(t.pc)}

\* C2: a JUMPI at p of run r, r already in hit_runs of the line with
\* jump_pc = p, adds r to false_runs if the next instruction of the trace is
\* at p+1 and to true_runs otherwise, and changes nothing else; if r is not
\* in hit_runs yet, no outcome set changes.
C2_Step(cm, cm2) ==
    (phase = "instr" /\ Now.op = "JUMPI") =>
        \A id \in JumpLines(Now) :
            LET old == LineRec(cm, id)
                new == LineRec(cm2, id)
                fall == Len(win) >= 2 /\ win[2].pc = Now.pc + 1
            IN  IF tx \in old.tx
                THEN /\ new.false = IF fall THEN old.false \cup {tx}
                                    ELSE old.false
                     /\ new.true = IF fall THEN old.true
                                   ELSE old.true \cup {tx}
                     /\ new.tx = old.tx
                     /\ \A o \in LineIds \ {id} :
                            SameSets(LineRec(cm, o), LineRec(cm2, o))
                ELSE \A o \in LineIds :
                        /\ LineRec(cm2, o).true = LineRec(cm, o).true
                        /\ LineRec(cm2, o).false = LineRec(cm, o).false

C2_JumpiRecordsOneOutcome == [][C2_Step(coverage_map, coverage_map')]_vars

\* instruction t can be attributed to no line of the coverage map
Unattributable(t) ==
    /\ t.contractName # ""
    /\ t.source # ""
    /\ \/ t.source \notin DOMAIN GetBuild(t.contractName)
       \/ \A id \in LineIds :
            (id[1] = t.contractName /\ id[2] = t.source) =>
                \/ t.pc \notin GetBuild(id[1])[id[2]][id[3]].fn.pc
                \/ IF t.op = "JUMPI"
                   THEN \A j \in 1..Len(GetBuild(id[1])[id[2]][id[3]].line) :
                        GetBuild(id[1])[id[2]][id[3]].line[j].jump
                            # JumpAt(t.pc)
                   ELSE \A j \in 1..Len(GetBuild(id[1])[id[2]][id[3]].line) :
                        t.pc \notin GetBuild(id[1])[id[2]][id[3]].line[j].pc

\* C5: an unattributable instruction changes the run sets of no line, raises
\* no error, and the recording goes on with the next instruction.
C5_Step(cm, cm2, err2, phase2) ==
    (phase = "instr" /\ Unattributable(Now)) =>
        /\ \A o \in LineIds : SameSets(LineRec(cm, o), LineRec(cm2, o))
        /\ err2 = "none"
        /\ phase2 \in {"instr", "tx"}

C5_UnattributableSkipped ==
    [][C5_Step(coverage_map, coverage_map', err', phase')]_vars

\* C6: the recording of a trace never fails for want of a next instruction.
C6_RecordingTotal == err # "IndexError"

(***************************************************************************)
(* SpecOrder: a history of MaxRuns transactions with given traces.  The    *)
(* loop of line 89 takes the transactions in the order of the history; the *)
(* order is an input, revealed here one transaction at a time.             *)
(***************************************************************************)
\* the line with the branch, its JUMPI and the instruction after the JUMPI
OrderInstrs == {Instr(pc, "C", "a.sol") : pc \in 2..4}

\* every trace of at most three of these instructions: a hit of the line, its
\* JUMPI and the instruction that decides the outcome fit in a trace
OrderTraces == UNION {[1..k -> OrderInstrs] : k \in 0..3}

InitOrder ==
    /\ coverage_map = Empty
    /\ coverage_eval = Empty
    /\ tx = 0
    /\ ntx = 0
    /\ win = <<>>
    /\ n = 0
    /\ trace = <<>>
    /\ i = 0
    /\ hist \in [1..MaxRuns -> OrderTraces]
    /\ pending = 1..MaxRuns
    /\ phase = "tx"
    /\ err = "none"
    /\ tally = [count |-> 0, total |-> 0]
    /\ FilesIdle

\* lines 89-92: the next transaction of the history
StartTxOrder ==
    /\ phase = "tx"
    /\ \E r \in pending :
        /\ tx' = r
        /\ pending' = pending \ {r}
        /\ trace' = hist[r]
        /\ i' = 1
        /\ phase' = IF hist[r] = <<>> THEN "tx" ELSE "instr"
    /\ ntx' = ntx + 1
    /\ UNCHANGED <<coverage_map, coverage_eval, win, n, hist, err, tally>>
    /\ UNCHANGED fileVars

\* lines 92-125: one instruction of the trace
RecordStepOrder ==
    /\ phase = "instr"
    /\ LET r == RecordInstr(coverage_map, coverage_eval, tx, trace, i)
       IN  /\ coverage_map' = r.cm
           /\ coverage_eval' = r.ce
           /\ err' = r.err
           /\ IF r.err # "none" THEN phase' = "raised" /\ i' = i
              ELSE /\ i' = i + 1
                   /\ phase' = IF i = Len(trace) THEN "tx" ELSE "instr"
    /\ UNCHANGED <<tx, ntx, win, n, trace, hist, pending, tally>>
    /\ UNCHANGED fileVars

NextOrder == StartTxOrder \/ RecordStepOrder \/ Evaluate

SpecOrder == InitOrder /\ [][NextOrder]_vars

\* lines 89-125: the history h from instruction k of the trace of run r on,
\* the runs in the order of h
RECURSIVE RecordRuns(_, _, _, _, _)
RecordRuns(cm, ce, h, r, k) ==
    IF r > Len(h) THEN [cm |-> cm, ce |-> ce, err |-> "none"]
    ELSE IF k > Len(h[r]) THEN RecordRuns(cm, ce, h, r + 1, 1)
    ELSE LET x == RecordInstr(cm, ce, r, h[r], k)
         IN  IF x.err # "none" THEN x
             ELSE RecordRuns(x.cm, x.ce, h, r, k + 1)

\* C4: whatever the order in which the runs are replayed, the recording ends
\* as the replay in ascending order of the run identifiers does: it fails in
\* both or in none, and if it does not fail every line has the same hit_runs,
\* true_runs and false_runs and the evaluated report is the same.
C4_OrderIndependent ==
    phase \in {"done", "raised"} =>
        LET ref == RecordRuns(Empty, Empty, hist, 1, 1)
        IN  /\ (phase = "raised") <=> (ref.err # "none")
            /\ phase = "done" =>
                /\ coverage_map = CountAll(ref.cm)
                /\ coverage_eval = EvalAll(ref.cm, ref.ce)

\* run 1 was replayed last, after a run that saw the other outcome
C4_Witness ==
    /\ phase = "done"
    /\ tx = 1
    /\ \E id \in LineIds :
        LET ln == LineRec(coverage_map, id)
        IN  1 \in ln.true /\ 2 \in ln.false /\ 1 \notin ln.false

(***************************************************************************)
(* SpecEval: the evaluator applied to one function in every annotation the *)
(* recorder can leave: a line is untouched, or has its keys with the runs  *)
(* that hit it and, if it has a branch, the runs of each outcome among     *)
(* them; the function has the runs of its lines and possibly runs that hit *)
(* program counters of no line.                                            *)
(***************************************************************************)
Runs == 1..MaxEvalRuns

\* line j of the function: program counter 3j-2, its JUMPI, if any, at 3j-1
Annotated(j) ==
    {Line({3 * j - 2}, jump) : jump \in {NoJump, JumpAt(3 * j - 1)}}
        \cup {[pc |-> {3 * j - 2}, jump |-> NoJump, keys |-> TRUE, tx |-> h,
               true |-> {}, false |-> {}] : h \in SUBSET Runs}
        \cup {[pc |-> {3 * j - 2}, jump |-> JumpAt(3 * j - 1), keys |-> TRUE,
               tx |-> x[1], true |-> x[2], false |-> x[3]] :
                x \in {y \in (SUBSET Runs) \X (SUBSET Runs) \X (SUBSET Runs) :
                        y[2] \subseteq y[1] /\ y[3] \subseteq y[1]}}

\* the annotated lines 1..k of a function
RECURSIVE LinesUpTo(_)
LinesUpTo(k) ==
    IF k = 0 THEN {<<>>}
    ELSE {Append(ls, a) : ls \in LinesUpTo(k - 1), a \in Annotated(k)}

AnnotatedLines == UNION {LinesUpTo(k) : k \in 1..MaxLines}

HitRuns(lines) == UNION {lines[j].tx : j \in 1..Len(lines)}

\* the function of these lines; other says whether runs hit program counters
\* of the function that belong to no line
AnnotatedFunction(ls, other) ==
    [Function("f", 1..(3 * Len(ls)), ls) EXCEPT
        !.fn.tx = IF other THEN Runs ELSE HitRuns(ls)]

InitEval ==
    /\ \E ls \in AnnotatedLines, other \in BOOLEAN :
        coverage_map =
            [c \in {"C"} |->
                [s \in {"a.sol"} |-> <<AnnotatedFunction(ls, other)>>]]
    /\ coverage_eval = [c \in {"C"} |-> [s \in {"a.sol"} |-> Empty]]
    /\ tx = 0
    /\ ntx = 0
    /\ win = <<>>
    /\ n = 0
    /\ trace = <<>>
    /\ i = 0
    /\ hist = <<>>
    /\ pending = {}
    /\ phase = "tx"
    /\ err = "none"
    /\ tally = [count |-> 0, total |-> 0]
    /\ FilesIdle

NextEval == Evaluate

SpecEval == InitEval /\ [][NextEval]_vars

\* the functions of the map: <<contract, source, position>>
FnIds ==
    {id \in {"C"} \X {"a.sol"} \X (1..2) :
        /\ id[1] \in DOMAIN coverage_map
        /\ id[3] <= Len(coverage_map[id[1]][id[2]])}
FnRec(id) == coverage_map[id[1]][id[2]][id[3]]
FnRep(id) == coverage_eval[id[1]][id[2]][FnRec(id).name]

Hit(ln) == ln.tx # {}
FullyCovered(ln) ==
    Hit(ln) /\ (ln.jump = NoJump \/ (ln.true # {} /\ ln.false # {}))
OnlyTrue(ln) ==
    Hit(ln) /\ ln.jump # NoJump /\ ln.true # {} /\ ln.false = {}
OnlyFalse(ln) ==
    Hit(ln) /\ ln.jump # NoJump /\ ln.false # {} /\ ln.true = {}

RefUnits(ln) ==
    IF FullyCovered(ln) THEN Weight(ln)
    ELSE IF OnlyTrue(ln) \/ OnlyFalse(ln) THEN 1 ELSE 0

RECURSIVE SumUnits(_, _)
SumUnits(lines, k) ==
    IF k = 0 THEN 0 ELSE RefUnits(lines[k]) + SumUnits(lines, k - 1)

RefScore(lines) == SumUnits(lines, Len(lines))

Reference(lines) ==
    [count |-> RefScore(lines),
     line |-> {j - 1 : j \in {k \in 1..Len(lines) : FullyCovered(lines[k])}},
     true |-> {j - 1 : j \in {k \in 1..Len(lines) : OnlyTrue(lines[k])}},
     false |-> {j - 1 : j \in {k \in 1..Len(lines) : OnlyFalse(lines[k])}}]

\* C3: for a function with a hit line, the score and the index sets the
\* evaluator accumulates are those of the reference (a hit line without
\* branch: 1 unit, in `line`; a hit branch with both outcomes: 2 units, in
\* `line`; with the true outcome only: 1 unit, in `true`; with the false
\* outcome only: 1 unit, in `false`; any other line: nothing), the reported
\* sets are these sets, and the reported pct is score / total_weight to the
\* nearest hundredth.
C3_ScoreMatchesReference ==
    phase = "done" =>
        \A id \in FnIds :
            LET maps == FnRec(id)
                rep == FnRep(id)
                ref == Reference(maps.line)
                d == 100 * ref.count - rep.pct * maps.total
            IN  (\E j \in 1..Len(maps.line) : Hit(maps.line[j])) =>
                    /\ Accumulate(CountLines(maps.line), Len(maps.line)) = ref
                    /\ 2 * (IF d < 0 THEN -d ELSE d) <= maps.total
                    /\ IF "line" \in DOMAIN rep
                       THEN /\ rep.line = ref.line
                            /\ rep.true = ref.true
                            /\ rep.false = ref.false
                       ELSE ref.count = maps.total

\* the example of the specification: a hit line and a branch seen true only
C3_Witness ==
    /\ phase = "done"
    /\ \E id \in FnIds :
        /\ FnRec(id).total = 3
        /\ FnRep(id) = [line |-> {0}, true |-> {1}, false |-> {}, pct |-> 67]

\* C9: a function whose lines are all hit, every branch with both outcomes,
\* and whose total_weight is the sum of the weights of its lines, is reported
\* as {pct: 1} and nothing else.
C9_FullCoverageCollapses ==
    phase = "done" =>
        \A id \in FnIds :
            LET maps == FnRec(id)
            IN  (/\ \A j \in 1..Len(maps.line) : FullyCovered(maps.line[j])
                 /\ maps.total = TotalWeight(maps.line))
                    => FnRep(id) = [pct |-> 100]

\* a function with a plain line and a branch, both fully covered
C9_Witness ==
    /\ phase = "done"
    /\ \E id \in FnIds :
        LET maps == FnRec(id)
        IN  /\ \A j \in 1..Len(maps.line) : FullyCovered(maps.line[j])
            /\ \E j \in 1..Len(maps.line) : maps.line[j].jump # NoJump
            /\ \E j \in 1..Len(maps.line) : maps.line[j].jump = NoJump
            /\ FnRep(id) = [pct |-> 100]

(***************************************************************************)
(* SpecPct: lines 158-163 applied to every total weight up to MaxTotal and *)
(* every count from 0 to the total.                                        *)
(***************************************************************************)
InitPct ==
    /\ coverage_map = Empty
    /\ coverage_eval = Empty
    /\ tx = 0
    /\ ntx = 0
    /\ win = <<>>
    /\ n = 0
    /\ trace = <<>>
    /\ i = 0
    /\ hist = <<>>
    /\ pending = {}
    /\ phase = "report"
    /\ err = "none"
    /\ \E total \in 1..MaxTotal :
        \E count \in 0..total : tally = [count |-> count, total |-> total]
    /\ FilesIdle

\* lines 158-163, after the loop found the first tally.count lines covered
ReportFn ==
    /\ phase = "report"
    /\ coverage_eval' =
        [c \in {"C"} |->
            [s \in {"a.sol"} |->
                [f \in {"f"} |->
                    FnReport([count |-> tally.count,
                              line |-> {j - 1 : j \in 1..tally.count},
                              true |-> {}, false |-> {}],
                             tally.total)]]]
    /\ phase' = "done"
    /\ UNCHANGED <<coverage_map, tx, ntx, win, n, trace, i, hist, pending,
                   err, tally>>
    /\ UNCHANGED fileVars

NextPct == ReportFn

SpecPct == InitPct /\ [][NextPct]_vars

\* C8: a reported pct of 1 means that the score is total_weight, and such an
\* entry has no detail sets: an entry with detail sets has a pct below 1.
C8_PctOneOnlyWhenComplete ==
    (phase = "done" /\ tally.total > 0) =>
        LET rep == coverage_eval["C"]["a.sol"]["f"]
        IN  /\ rep.pct = 100 => tally.count = tally.total
            /\ "line" \in DOMAIN rep => rep.pct < 100

(***************************************************************************)
(* SpecFiles: the loop over the test files, lines 44-57 and 70-187.  The   *)
(* history run_test returns for a file is an input of the step that runs   *)
(* the file; its replay and evaluation (the steps of Spec) are part of     *)
(* that step.                                                              *)
(***************************************************************************)
Versions == {1, 2}

\* the histories run_test returns: no transaction that names a contract; a
\* transaction that hits a line of the contract; a transaction with an
\* instruction from a source file the coverage map has no entry for
FileHistories ==
    {<< >>,
     << <<Instr(2, "C", "a.sol")>> >>,
     << <<Instr(2, "C", "b.sol")>> >>}

\* lines 87-163 for the history h
Replay(h) ==
    LET r == RecordRuns(Empty, Empty, h, 1, 1)
    IN  IF r.err # "none" THEN r
        ELSE [cm |-> CountAll(r.cm), ce |-> EvalAll(r.cm, r.ce),
              err |-> "none"]

\* the histories whose replay does not raise, replayed
Replayed == {r \in {Replay(h) : h \in FileHistories} : r.err = "none"}

\* hashlib.sha1(...).hexdigest(): equal digests for equal contents only
Sha1(x) == <<"sha1", x>>

\* line 172: bytecode[:-68], the bytecode without its final metadata
StripMetadata(b) == b.code

\* line 179: str(test_path), the key of the hash of the test file
TestPath == "tests.py"

\* lines 166-173: the hash of the build file of every contract of
\* coverage_eval, keyed by the contract
BuildHashes(ce, code) == [c \in DOMAIN ce |-> Sha1(StripMetadata(code))]

\* lines 166-173, 179: the build hashes and the hash of the test file
Hashes(ce, test, code) ==
    [k \in DOMAIN ce \cup {TestPath} |->
        IF k = TestPath THEN Sha1(test) ELSE BuildHashes(ce, code)[k]]

\* lines 167-174: coverage_eval rebound to the dict that is dumped
Wrapped(ce, code) == [contracts |-> ce, sha1 |-> BuildHashes(ce, code)]

\* lines 179-187: the report file of a test file
Report(ce, test, code) ==
    [exists |-> TRUE, contracts |-> ce, sha1 |-> Hashes(ce, test, code)]

\* coverage_json.exists() is false
NoReport == [exists |-> FALSE, contracts |-> Empty, sha1 |-> Empty]

\* lines 47-51: idx.split(':') and int() accept "2" and "1:4" and fail for "x"
RangeArgs == {"", "2", "1:4", "x"}
ValidRange(r) == r \in {"2", "1:4"}

\* the reports an earlier run of the command can have left
CachedReports ==
    {NoReport} \cup
        {Report(r.ce, t, [code |-> c, metadata |-> 1]) :
            r \in Replayed, t \in Versions, c \in Versions}

InitFiles ==
    /\ RecIdle
    /\ args \in [update : BOOLEAN, range : RangeArgs]
    /\ test_files \in {1..k : k \in 1..MaxFiles}
    /\ tests \in [test_files -> Versions]
    /\ bytecode \in [code : Versions, metadata : Versions]
    /\ reports \in [test_files -> CachedReports]
    /\ cached = reports
    /\ run = [f \in test_files |-> "pending"]
    /\ recorded = {}
    /\ fphase = "args"

\* lines 45-57
ParseRange ==
    /\ fphase = "args"
    /\ fphase' = IF args.range = "" THEN "loop"
                 ELSE IF Cardinality(test_files) = 1 /\ ValidRange(args.range)
                 THEN "loop"
                 ELSE "exit"
    /\ UNCHANGED <<args, test_files, tests, bytecode, reports, cached, run,
                   recorded>>
    /\ UNCHANGED recVars

\* line 70: the file of this iteration
ThisFile(f) ==
    /\ fphase = "loop"
    /\ f \in test_files
    /\ run[f] = "pending"
    /\ \A g \in test_files : g < f => run[g] # "pending"

\* line 75
Skipped(f) == args.update /\ reports[f].exists

\* lines 83-84 left out: the report stays
KeepReport(reps, f) == reps

\* lines 83-84
Unlink(reps, f) == [reps EXCEPT ![f] = NoReport]

\* lines 75-76: update mode and the report exists
SkipCached ==
    \E f \in test_files :
        /\ ThisFile(f)
        /\ Skipped(f)
        /\ run' = [run EXCEPT ![f] = "skipped"]
        /\ UNCHANGED <<args, test_files, tests, bytecode, reports, cached,
                       recorded, fphase>>
        /\ UNCHANGED recVars

\* lines 81-85: run_test returns a traceback
RunTraceback ==
    \E f \in test_files :
        /\ ThisFile(f)
        /\ ~Skipped(f)
        /\ run' = [run EXCEPT ![f] = "tb"]
        /\ reports' = Unlink(reports, f)
        /\ UNCHANGED <<args, test_files, tests, bytecode, cached, recorded,
                       fphase>>
        /\ UNCHANGED recVars

\* lines 81-125: no traceback, and the replay of the history raises
RunRaised ==
    \E f \in test_files, r \in {Replay(h) : h \in FileHistories} :
        /\ ThisFile(f)
        /\ ~Skipped(f)
        /\ r.err # "none"
        /\ coverage_map' = r.cm
        /\ coverage_eval' = r.ce
        /\ err' = r.err
        /\ run' = [run EXCEPT ![f] = "ok"]
        /\ recorded' = recorded \cup {f}
        /\ fphase' = "raised"
        /\ UNCHANGED <<args, test_files, tests, bytecode, reports, cached>>
        /\ UNCHANGED <<tx, ntx, win, n, trace, i, hist, pending, phase, tally>>

\* lines 81-176: no traceback, a range was given: nothing is written
RunRange ==
    \E f \in test_files, r \in Replayed :
        /\ ThisFile(f)
        /\ ~Skipped(f)
        /\ args.range # ""
        /\ coverage_map' = r.cm
        /\ coverage_eval' = Wrapped(r.ce, bytecode)
        /\ run' = [run EXCEPT ![f] = "ok"]
        /\ recorded' = recorded \cup {f}
        /\ UNCHANGED <<args, test_files, tests, bytecode, reports, cached,
                       fphase>>
        /\ UNCHANGED <<tx, ntx, win, n, trace, i, hist, pending, phase, err,
                       tally>>

\* lines 81-187: no traceback, no range: the report is written
RunWritten ==
    \E f \in test_files, r \in Replayed :
        /\ ThisFile(f)
        /\ ~Skipped(f)
        /\ args.range = ""
        /\ coverage_map' = r.cm
        /\ coverage_eval' =
            [Wrapped(r.ce, bytecode) EXCEPT
                !.sha1 = Hashes(r.ce, tests[f], bytecode)]
        /\ run' = [run EXCEPT ![f] = "ok"]
        /\ recorded' = recorded \cup {f}
        /\ reports' = [reports EXCEPT
                        ![f] = Report(r.ce, tests[f], bytecode)]
        /\ UNCHANGED <<args, test_files, tests, bytecode, cached, fphase>>
        /\ UNCHANGED <<tx, ntx, win, n, trace, i, hist, pending, phase, err,
                       tally>>

(***************************************************************************)
(* Line 190: merge_coverage(coverage_files).  brownie.test.coverage is not *)
(* among the sources; the merge follows section 4.3 of the specification:  *)
(* the sets of a function are the union over the reports that mention it,  *)
(* and its pct is computed again from the union.                           *)
(***************************************************************************)
\* the weights of those of the lines 1..k whose index is in covered
RECURSIVE WeightIn(_, _, _)
WeightIn(lines, covered, k) ==
    IF k = 0 THEN 0
    ELSE (IF (k - 1) \in covered THEN Weight(lines[k]) ELSE 0)
            + WeightIn(lines, covered, k - 1)

\* the reports rs of one function merged; maps is its entry in the build
MergeFn(rs, maps) ==
    LET detail == {r \in rs : "line" \in DOMAIN r}
        t == UNION {r.true : r \in detail}
        f == UNION {r.false : r \in detail}
        l == UNION {r.line : r \in detail} \cup (t \cap f)
    IN  IF \E r \in rs \ detail : r.pct = 100 THEN [pct |-> 100]
        ELSE IF detail = {} THEN [pct |-> 0]
        ELSE FnReport([count |-> WeightIn(maps.line, l, Len(maps.line))
                                    + Cardinality((t \cup f) \ l),
                       line |-> l, true |-> t \ l, false |-> f \ l],
                      maps.total)

\* the reports of the files of coverage_files that exist, merged
MergeCoverage(reps) ==
    LET evals == {reps[f].contracts :
                    f \in {g \in DOMAIN reps : reps[g].exists}}
        with(c) == {ce \in evals : c \in DOMAIN ce}
    IN  [c \in UNION {DOMAIN ce : ce \in evals} |->
            [src \in UNION {DOMAIN ce[c] : ce \in with(c)} |->
                [fn \in UNION {DOMAIN ce[c][src] : ce \in with(c)} |->
                    MergeFn({ce[c][src][fn] :
                                ce \in {e \in with(c) :
                                            fn \in DOMAIN e[c][src]}},
                            FnNamed(GetBuild(c)[src], fn))]]]

\* lines 189-199: after the last file the reports are merged and printed
Finish ==
    /\ fphase = "loop"
    /\ \A f \in test_files : run[f] # "pending"
    /\ coverage_eval' = MergeCoverage(reports)
    /\ fphase' = "done"
    /\ UNCHANGED <<args, test_files, tests, bytecode, reports, cached, run,
                   recorded>>
    /\ UNCHANGED <<coverage_map, tx, ntx, win, n, trace, i, hist, pending,
                   phase, err, tally>>

NextFiles ==
    \/ ParseRange
    \/ SkipCached
    \/ RunTraceback
    \/ RunRaised
    \/ RunRange
    \/ RunWritten
    \/ Finish

SpecFiles == InitFiles /\ [][NextFiles]_vars

\* C7: in update mode a test file is skipped only if the hashes stored with
\* its cached report are the hashes of the current test source and of the
\* current bytecode of the contracts of the report.
C7_SkippedOnlyWhenUnchanged ==
    \A f \in test_files :
        run[f] = "skipped" =>
            /\ reports[f].exists
            /\ reports[f].sha1 =
                Hashes(reports[f].contracts, tests[f], bytecode)

\* C10: once the run of a test file has returned a traceback the file has no
\* report and its history is not replayed; and a step that leaves a new
\* report for a file is the step of a run without traceback, started
\* without a range.
C10_State ==
    \A f \in test_files :
        run[f] = "tb" => ~reports[f].exists /\ f \notin recorded

C10_Step(run2, reports2) ==
    \A f \in test_files :
        (reports2[f].exists /\ reports2[f] # reports[f]) =>
            /\ run[f] = "pending"
            /\ run2[f] = "ok"
            /\ args.range = ""

C10_TracebackLeavesNoReport ==
    [](C10_State) /\ [][C10_Step(run', reports')]_vars

\* a file ran into a traceback and its cached report is gone, and another
\* file got a new report
C10_Witness ==
    /\ \E f \in test_files :
        run[f] = "tb" /\ cached[f].exists /\ ~reports[f].exists
    /\ \E f \in test_files :
        run[f] = "ok" /\ reports[f] # cached[f] /\ reports[f].exists

====
